---- MODULE Spec2Model ----
(***************************************************************************)
(* Model of main.py of global-entry-scraper: the polling loop of __main__, *)
(* get_timeslots_for_location_ids, the timeslot fetcher, the notification  *)
(* formatter and the notifier.                                             *)
(*                                                                         *)
(* A datetime is a record of its day and its time of the day (tick 0 is    *)
(* midnight), ordered by day and then by tick.                             *)
(* A dict that is iterated (all_timeslots, ats) is a sequence of           *)
(* [id, ts] entries in insertion order; loc_mapping, which is only         *)
(* indexed, is a function.  Durations are in tenths of a second.           *)
(***************************************************************************)
EXTENDS Integers, Sequences, FiniteSets

VARIABLES
    pc,                 \* position of the single thread of control
    err,                \* kind of the exception that ended the run, or "none"
    location_ids,       \* args.location_ids
    before,             \* args.before
    silent,             \* args.silent
    loc_mapping,        \* loc_mapping of __main__
    keep_running,       \* keep_running of __main__
    ats,                \* ats of __main__
    all_timeslots,      \* all_timeslots of get_timeslots_for_location_ids
    idx,                \* position of the for loop in location_ids
    notification_text,  \* notification_text of __main__
    response,           \* the response handed to a fetch on its own, or NoResponse
    sleeping,           \* the values of calls of delay() on its own, in tenths
    rounds,             \* history: calls of get_timeslots_for_location_ids
    fetched,            \* history: fetches completed in the current round
    results,            \* history: id -> list of its latest fetch of the round
    round_results,      \* history: per returned round, was any list non-empty
    log                 \* history: remote calls, sleeps and sends, in order

vars == <<pc, err, location_ids, before, silent, loc_mapping, keep_running,
          ats, all_timeslots, idx, notification_text, rounds,
          fetched, results, round_results, log, response, sleeping>>

\* written only where a function is run on its own
aux == <<response, sleeping>>

-----------------------------------------------------------------------------
(* Bounds of the model *)

MaxRounds == 2      \* rounds a run may start
MaxLocs == 2        \* length of the --location-ids list
MaxRecs == 2        \* records in one response of the timeslot endpoint
MaxCalls == 2       \* calls of delay() on its own

(* Program constants *)

REQUEST_DELAY == 2
JitterLo == -10
JitterHi == 10

Ids == {1, 2}
Names == {"A"}

\* the datetimes of the model: the last time of day 1, midnight of day 2 and
\* a later time of day 2
Datetime(day, tick) == [day |-> day, tick |-> tick]
Datetimes == {Datetime(1, 1), Datetime(2, 0), Datetime(2, 1)}
CutoffDays == {2}

-----------------------------------------------------------------------------
(* Sequences and dicts *)

Range(s) == {s[i] : i \in 1..Len(s)}

SeqsUpTo(S, n) == UNION {[1..k -> S] : k \in 0..n}

\* datetime.__lt__
Earlier(a, b) == a.day < b.day \/ (a.day = b.day /\ a.tick < b.tick)

Min(S) == CHOOSE x \in S : \A y \in S \ {x} : Earlier(x, y)

RECURSIVE sorted(_)
sorted(S) == IF S = {} THEN <<>> ELSE <<Min(S)>> \o sorted(S \ {Min(S)})

DictKeys(d) == {d[i].id : i \in 1..Len(d)}

\* d[k] = v of an insertion-ordered dict: an existing key keeps its place
DictSet(d, k, v) ==
    IF k \in DictKeys(d)
    THEN [i \in 1..Len(d) |-> IF d[i].id = k THEN [id |-> k, ts |-> v] ELSE d[i]]
    ELSE Append(d, [id |-> k, ts |-> v])

-----------------------------------------------------------------------------
(* delay(), in tenths of a second, for a value r of random.randint(-10, 10) *)

Jitter == JitterLo..JitterHi

\* variant: the jitter is not divided, whole seconds
delay_undivided(r) == 10 * REQUEST_DELAY + 10 * r


delay(r) == 10 * REQUEST_DELAY + (10 * r) \div ((10 * REQUEST_DELAY) \div 2)

\* time.sleep raises ValueError on a negative duration
sleep_raises(d) == d < 0

-----------------------------------------------------------------------------
(* Remote responses *)

BadStamp == [ok |-> FALSE, day |-> 0, tick |-> 0]

Stamp(t) == [ok |-> TRUE, day |-> t.day, tick |-> t.tick]

RawRecords == {Stamp(t) : t \in Datetimes} \cup {BadStamp}

TimeslotResponses ==
    {[status |-> 200, body |-> b] : b \in SeqsUpTo(RawRecords, MaxRecs)}
    \cup {[status |-> 500, body |-> <<>>]}

LocationRecords == {[id |-> i, name |-> n] : i \in Ids, n \in Names}

MappingResponses ==
    {[status |-> 200, body |-> b] : b \in SeqsUpTo(LocationRecords, 2)}
    \cup {[status |-> 500, body |-> <<>>]}

\* no response at hand
NoResponse == [status |-> 0, body |-> <<>>]

\* make_request raises ValueError on a status other than 200
make_request_raises(resp) == resp.status # 200

\* "{} ({}, {})".format(name, city, state)
Label(location) == <<location.name, " (", "City", ", ", "ST", ")">>

\* the dict comprehension of import_mapping_from_url: a later record wins
import_mapping_from_url(body) ==
    [i \in {body[j].id : j \in 1..Len(body)} |->
        LET last == CHOOSE j \in 1..Len(body) :
                        /\ body[j].id = i
                        /\ \A k \in (j+1)..Len(body) : body[k].id # i
        IN Label(body[last])]

-----------------------------------------------------------------------------
(* Timeslot fetcher *)

\* datetime.strptime(timeslot["startTimestamp"], "%Y-%m-%dT%H:%M")
parse_raises(rec) == ~rec.ok

parse_timeslot_datetime(rec) == Datetime(rec.day, rec.tick)

\* variant: a record that cannot be parsed is let through
fetch_never_raises(body) == FALSE

fetch_raises(body) == \E i \in 1..Len(body) : parse_raises(body[i])

\* variant: the list as the remote sent it, neither deduplicated nor sorted
get_timeslots_as_sent(body) ==
    [i \in 1..Len(body) |-> parse_timeslot_datetime(body[i])]

\* sorted(list(set(timeslots)))
get_timeslots_for_location_id(body) ==
    sorted({parse_timeslot_datetime(body[i]) : i \in 1..Len(body)})

(* --before: absent, a YYYY-MM-DD date, or a string strptime rejects *)

NoBefore == [kind |-> "none", day |-> 0]
BadBefore == [kind |-> "bad", day |-> 0]
Befores == {NoBefore, BadBefore} \cup {[kind |-> "date", day |-> d] : d \in CutoffDays}

\* datetime.strptime(before, "%Y-%m-%d"): midnight of the cutoff date
Midnight(b) == Datetime(b.day, 0)

\* variant: <= in the place of <
keep_inclusive(timeslot, b) == b.kind = "none" \/ ~Earlier(Midnight(b), timeslot)

\* the condition of the list comprehension, evaluated once per timeslot
keep(timeslot, b) == b.kind = "none" \/ Earlier(timeslot, Midnight(b))

\* variant: a cutoff strptime rejects is passed over
filter_never_raises(timeslots, b) == FALSE


filter_raises(timeslots, b) == b.kind = "bad" /\ Len(timeslots) > 0

\* variant: the cutoff is not applied to the fetched list
filter_nothing(timeslots, b) == timeslots


filter_timeslots(timeslots, b) == SelectSeq(timeslots, LAMBDA t : keep(t, b))

-----------------------------------------------------------------------------
(* Notification formatter *)

\* a line of text: its fixed wording and the values formatted into it
Line(kind, label, location_id, day, tick) ==
    [kind |-> kind, label |-> label, id |-> location_id, day |-> day, tick |-> tick]

Banner == <<Line("banner", <<>>, 0, 0, 0)>>
NothingFound == <<Line("none found", <<>>, 0, 0, 0)>>

\* f"{location_mapping[location_id]} ({location_id})"
HeaderLine(label, location_id) == Line("header", label, location_id, 0, 0)

\* '    ' + strftime of the timeslot: its date and its time of the day
SlotLine(timeslot) == Line("slot", <<>>, 0, timeslot.day, timeslot.tick)

LocationBlock(m, entry) ==
    <<HeaderLine(m[entry.id], entry.id)>>
    \o [i \in 1..Len(entry.ts) |-> SlotLine(entry.ts[i])]

\* variant: the label is looked up for every location, before the test of
\* its list
generate_raises_any_missing(m, d) == \E i \in 1..Len(d) : d[i].id \notin DOMAIN m

\* location_mapping[location_id] raises KeyError
generate_raises(m, d) ==
    \E i \in 1..Len(d) : Len(d[i].ts) > 0 /\ d[i].id \notin DOMAIN m

\* variant: each block is put in front of the blocks before it
LocationTextsPrepended(m, d) ==
    LET kept == SelectSeq(d, LAMBDA entry : Len(entry.ts) > 0) IN
    [i \in 1..Len(kept) |-> LocationBlock(m, kept[Len(kept) - i + 1])]

RECURSIVE LocationTexts(_, _)
LocationTexts(m, d) ==
    IF d = <<>> THEN <<>>
    ELSE (IF Len(Head(d).ts) > 0 THEN <<LocationBlock(m, Head(d))>> ELSE <<>>)
         \o LocationTexts(m, Tail(d))

\* variant: the silent case returns the banner alone
BannerOnlyTexts == <<Banner>>

\* return [] of the silent case
SilentEmptyTexts == <<>>

\* variant: the "nothing found" line is never appended
generate_without_notice(m, d, s) ==
    LET notification_texts == <<Banner>> \o LocationTexts(m, d) IN
    IF Len(notification_texts) = 1 /\ s THEN SilentEmptyTexts ELSE notification_texts

generate_notification_texts(m, d, s) ==
    LET notification_texts == <<Banner>> \o LocationTexts(m, d) IN
    IF Len(notification_texts) = 1
    THEN IF s THEN SilentEmptyTexts ELSE Append(notification_texts, NothingFound)
    ELSE notification_texts

-----------------------------------------------------------------------------
(* Events of the history *)

\* ok: the remote call was answered 200 with well-formed records
Ev(kind, id, ok) == [ev |-> kind, id |-> id, ok |-> ok]

Answered(resp) ==
    /\ resp.status = 200
    /\ \A i \in 1..Len(resp.body) : resp.body[i] # BadStamp

\* what the remote sent, seen from outside the program: was the call
\* answered, with any timeslot, with any timeslot of a date before the
\* cutoff date (of any date when there is no cutoff)
Observed(resp, b) ==
    [ok |-> Answered(resp),
     raw |-> Answered(resp) /\ resp.body # <<>>,
     early |-> /\ Answered(resp)
               /\ \E i \in 1..Len(resp.body) :
                    \/ b.kind = "none"
                    \/ b.kind = "date" /\ resp.body[i].day < b.day]

AnyNonEmptyEntry(d) == \E i \in 1..Len(d) : d[i].ts # <<>>

-----------------------------------------------------------------------------
(* Initial state: the arguments are parsed, nothing has run.  The duration *)
(* of a sleep reaches the program only through time.sleep, which rejects a *)
(* negative one; it is no part of the state.                               *)

Init ==
    /\ pc = "import_mapping"
    /\ err = "none"
    /\ location_ids \in {s \in SeqsUpTo(Ids, MaxLocs) : Len(s) >= 1}
    /\ before \in Befores
    /\ silent \in BOOLEAN
    /\ loc_mapping = <<>>
    /\ keep_running = FALSE     \* not bound yet
    /\ ats = <<>>               \* not bound yet
    /\ all_timeslots = <<>>
    /\ idx = 0
    /\ notification_text = <<>>
    /\ rounds = 0
    /\ fetched = <<>>
    /\ results = <<>>
    /\ round_results = <<>>
    /\ log = <<>>
    /\ response = NoResponse
    /\ sleeping = <<>>

Raise(kind) == pc' = "error" /\ err' = kind

\* variant: a failed call of the location endpoint leaves an empty mapping
\* and the run goes on
ImportMappingLenient ==
    /\ pc = "import_mapping"
    /\ UNCHANGED aux
    /\ \E resp \in MappingResponses :
        /\ log' = Append(log, Ev("mapping", 0, resp.status = 200))
        /\ loc_mapping' = IF make_request_raises(resp) THEN <<>>
                          ELSE import_mapping_from_url(resp.body)
        /\ keep_running' = TRUE
        /\ pc' = "while"
        /\ UNCHANGED err
    /\ UNCHANGED <<location_ids, before, silent, ats, all_timeslots, idx,
                   notification_text, rounds, fetched, results, round_results>>

\* loc_mapping = import_mapping_from_url(); keep_running = True
ImportMapping ==
    /\ pc = "import_mapping"
    /\ UNCHANGED aux
    /\ \E resp \in MappingResponses :
        /\ log' = Append(log, Ev("mapping", 0, resp.status = 200))
        /\ IF make_request_raises(resp)
           THEN /\ Raise("http")
                /\ UNCHANGED <<loc_mapping, keep_running>>
           ELSE /\ loc_mapping' = import_mapping_from_url(resp.body)
                /\ keep_running' = TRUE
                /\ pc' = "while"
                /\ UNCHANGED err
    /\ UNCHANGED <<location_ids, before, silent, ats, all_timeslots, idx,
                   notification_text, rounds, fetched, results, round_results>>

\* variant: the loop gives up after its first round
WhileCondOnce == keep_running /\ rounds < 1

\* while keep_running: the call of get_timeslots_for_location_ids, or the exit
WhileCond == keep_running

While ==
    /\ pc = "while"
    /\ UNCHANGED aux
    /\ IF WhileCond
       THEN /\ rounds < MaxRounds
            /\ rounds' = rounds + 1
            /\ all_timeslots' = <<>>
            /\ fetched' = <<>>
            /\ results' = <<>>
            /\ idx' = 1
            /\ pc' = "fetch"
       ELSE /\ pc' = "format"
            /\ UNCHANGED <<rounds, all_timeslots, fetched, results, idx>>
    /\ UNCHANGED <<err, location_ids, before, silent, loc_mapping, keep_running,
                   ats, notification_text, round_results, log>>

\* get_timeslots_for_location_id and the list comprehension around it, for
\* one response of the timeslot endpoint: the exception raised, or the list
filtered_fetch(resp, b) ==
    IF make_request_raises(resp) THEN
        [raises |-> "http", timeslots |-> <<>>]
    ELSE IF fetch_raises(resp.body) THEN
        [raises |-> "parse", timeslots |-> <<>>]
    ELSE LET raw == get_timeslots_for_location_id(resp.body) IN
        IF filter_raises(raw, b) THEN
            [raises |-> "before", timeslots |-> <<>>]
        ELSE
            [raises |-> "none", timeslots |-> filter_timeslots(raw, b)]

\* variant: the list is walked from its end
location_at_reversed(ids, i) == ids[Len(ids) - i + 1]

\* for location_id in location_ids: the location of the i-th iteration
location_at(ids, i) == ids[i]

\* variant: a list of pairs, one for every fetch
store_pair(d, location_id, timeslots) ==
    Append(d, [id |-> location_id, ts |-> timeslots])

\* variant: dict.setdefault, the first result of an id is kept
store_setdefault(d, location_id, timeslots) ==
    IF location_id \in DictKeys(d) THEN d
    ELSE Append(d, [id |-> location_id, ts |-> timeslots])

\* all_timeslots[location_id] = timeslots
store(d, location_id, timeslots) == DictSet(d, location_id, timeslots)

\* what one fetch can come to under --before b: for every response of the
\* endpoint, the outcome of the code and what the remote was seen to send
FetchOutcomes ==
    [b \in Befores |->
        {<<filtered_fetch(resp, b), Observed(resp, b)>> : resp \in TimeslotResponses}]

\* the body of the for loop up to the store into all_timeslots, for one
\* outcome of the call
FetchWith(call) ==
    LET location_id == location_at(location_ids, idx)
        got == call[1]
        seen == call[2]
    IN  /\ log' = Append(log, Ev("fetch", location_id, seen.ok))
        /\ IF got.raises # "none"
           THEN /\ Raise(got.raises)
                /\ UNCHANGED <<all_timeslots, fetched, results>>
           ELSE /\ all_timeslots' = store(all_timeslots, location_id, got.timeslots)
                /\ fetched' = Append(fetched,
                        [id |-> location_id, raw |-> seen.raw,
                         early |-> seen.early,
                         found |-> got.timeslots # <<>>])
                /\ results' = [i \in DOMAIN results \cup {location_id} |->
                                IF i = location_id THEN got.timeslots ELSE results[i]]
                /\ pc' = "sleep"
                /\ UNCHANGED err
        /\ UNCHANGED <<location_ids, before, silent, loc_mapping, keep_running,
                       ats, idx, notification_text, rounds, round_results>>

Fetch ==
    /\ pc = "fetch"
    /\ UNCHANGED aux
    /\ \E call \in FetchOutcomes[before] : FetchWith(call)

\* variant: the for loop breaks at the first location with a timeslot
LastLocationOrFound ==
    \/ idx >= Len(location_ids)
    \/ \E i \in 1..Len(all_timeslots) : Len(all_timeslots[i].ts) > 0

\* the for loop is over after the last location
LastLocation == idx >= Len(location_ids)

\* time.sleep(delay()) of the for loop, then the next location, or
\* return all_timeslots into ats
Sleep ==
    /\ pc = "sleep"
    /\ UNCHANGED aux
    /\ \E raises \in {sleep_raises(delay(r)) : r \in Jitter} :
        IF raises
        THEN /\ Raise("sleep")
             /\ UNCHANGED <<ats, round_results, idx, log>>
        ELSE /\ log' = Append(log, Ev("sleep", 0, TRUE))
             /\ UNCHANGED err
             /\ IF LastLocation
                THEN /\ ats' = all_timeslots
                     /\ round_results' =
                            Append(round_results, AnyNonEmptyEntry(all_timeslots))
                     /\ pc' = "if_any"
                     /\ UNCHANGED idx
                ELSE /\ idx' = idx + 1
                     /\ pc' = "fetch"
                     /\ UNCHANGED <<ats, round_results>>
    /\ UNCHANGED <<location_ids, before, silent, loc_mapping, keep_running,
                   all_timeslots, notification_text, rounds, fetched, results>>

\* variant: any(ats), the truth of the keys in the place of the lists
any_location_ids(d) == \E i \in 1..Len(d) : d[i].id # 0

\* variant: all(...) in the place of any(...)
all_timeslots_found(d) == \A i \in 1..Len(d) : Len(d[i].ts) > 0

\* any(val for val in ats.values())
any_timeslots(d) == \E i \in 1..Len(d) : Len(d[i].ts) > 0

\* variant: the else branch does not sleep
IfAnyNoSleep ==
    /\ pc = "if_any"
    /\ UNCHANGED aux
    /\ pc' = "while"
    /\ keep_running' = ~any_timeslots(ats)
    /\ UNCHANGED <<err, location_ids, before, silent, loc_mapping, ats,
                   all_timeslots, idx, notification_text, rounds, fetched,
                   results, round_results, log>>

\* if any(...): keep_running = False, else: on to the sleep of the round
IfAny ==
    /\ pc = "if_any"
    /\ UNCHANGED aux
    /\ IF any_timeslots(ats)
       THEN /\ keep_running' = FALSE
            /\ pc' = "while"
       ELSE /\ pc' = "round_sleep"
            /\ UNCHANGED keep_running
    /\ UNCHANGED <<err, location_ids, before, silent, loc_mapping, ats,
                   all_timeslots, idx, notification_text, rounds, fetched,
                   results, round_results, log>>

\* time.sleep(delay()) of the else branch
RoundSleep ==
    /\ pc = "round_sleep"
    /\ UNCHANGED aux
    /\ \E raises \in {sleep_raises(delay(r)) : r \in Jitter} :
        IF raises
        THEN /\ Raise("sleep")
             /\ UNCHANGED log
        ELSE /\ log' = Append(log, Ev("sleep", 0, TRUE))
             /\ pc' = "while"
             /\ UNCHANGED err
    /\ UNCHANGED <<location_ids, before, silent, loc_mapping, keep_running,
                   ats, all_timeslots, idx, notification_text, rounds, fetched,
                   results, round_results>>

\* notification_text = generate_notification_texts(loc_mapping, ats, args.silent)
Format ==
    /\ pc = "format"
    /\ UNCHANGED aux
    /\ IF generate_raises(loc_mapping, ats)
       THEN /\ Raise("key")
            /\ UNCHANGED notification_text
       ELSE /\ notification_text' = generate_notification_texts(loc_mapping, ats, silent)
            /\ pc' = "send"
            /\ UNCHANGED err
    /\ UNCHANGED <<location_ids, before, silent, loc_mapping, keep_running, ats,
                   all_timeslots, idx, rounds, fetched, results,
                   round_results, log>>

\* send(notification_text): one yag.send, which the transport may reject
Send ==
    /\ pc = "send"
    /\ UNCHANGED aux
    /\ \E accepted \in BOOLEAN :
        /\ log' = Append(log, Ev("send", 0, accepted))
        /\ IF accepted
           THEN pc' = "done" /\ UNCHANGED err
           ELSE Raise("delivery")
    /\ UNCHANGED <<location_ids, before, silent, loc_mapping, keep_running, ats,
                   all_timeslots, idx, notification_text, rounds,
                   fetched, results, round_results>>

Next ==
    \/ ImportMapping
    \/ While
    \/ Fetch
    \/ Sleep
    \/ IfAny
    \/ RoundSleep
    \/ Format
    \/ Send

Spec == Init /\ [][Next]_vars

\* the single thread of control always takes its next step
FairSpec == Spec /\ WF_vars(Next)

(* The formatter on its own: any mapping, any PollResult, either flag *)

SortedLists ==
    {sorted(S) : S \in {T \in SUBSET Datetimes : Cardinality(T) <= MaxRecs}}

PollResults ==
    {d \in SeqsUpTo([id : Ids, ts : SortedLists], MaxLocs) :
        /\ Len(d) >= 1
        /\ \A i, j \in 1..Len(d) : d[i].id = d[j].id => i = j}

Mappings ==
    {import_mapping_from_url(resp.body) :
        resp \in {r \in MappingResponses : ~make_request_raises(r)}}

InitFmt ==
    /\ pc = "format"
    /\ err = "none"
    /\ ats \in PollResults
    /\ loc_mapping \in Mappings
    /\ silent \in BOOLEAN
    /\ location_ids = [i \in 1..Len(ats) |-> ats[i].id]
    /\ before = NoBefore
    /\ keep_running = FALSE
    /\ all_timeslots = ats
    /\ idx = Len(ats)
    /\ notification_text = <<>>
    /\ rounds = 0
    /\ fetched = <<>>
    /\ results = <<>>
    /\ round_results = <<>>
    /\ log = <<>>
    /\ response = NoResponse
    /\ sleeping = <<>>

NextFmt == Format

SpecFmt == InitFmt /\ [][NextFmt]_vars

(* One iteration of the for loop on its own, up to the store: the first   *)
(* location of a round, any response of the timeslot endpoint, any --before *)

InitFetch ==
    /\ pc = "fetch"
    /\ err = "none"
    /\ location_ids \in {<<i>> : i \in Ids}
    /\ before \in Befores
    /\ silent = FALSE
    /\ loc_mapping = <<>>
    /\ keep_running = TRUE
    /\ ats = <<>>
    /\ all_timeslots = <<>>
    /\ idx = 1
    /\ notification_text = <<>>
    /\ rounds = 1
    /\ fetched = <<>>
    /\ results = <<>>
    /\ round_results = <<>>
    /\ log = <<>>
    /\ response \in TimeslotResponses
    /\ sleeping = <<>>

\* the iteration, for the response at hand
FetchGiven ==
    /\ pc = "fetch"
    /\ response # NoResponse
    /\ UNCHANGED aux
    /\ FetchWith(<<filtered_fetch(response, before), Observed(response, before)>>)

NextFetch == FetchGiven

SpecFetch == InitFetch /\ [][NextFetch]_vars

(* delay() on its own: successive calls, each with its own draw of       *)
(* random.randint(-10, 10)                                                  *)

InitDelay ==
    /\ pc = "delay"
    /\ err = "none"
    /\ location_ids = <<1>>
    /\ before = NoBefore
    /\ silent = FALSE
    /\ loc_mapping = <<>>
    /\ keep_running = TRUE
    /\ ats = <<>>
    /\ all_timeslots = <<>>
    /\ idx = 1
    /\ notification_text = <<>>
    /\ rounds = 1
    /\ fetched = <<>>
    /\ results = <<>>
    /\ round_results = <<>>
    /\ log = <<>>
    /\ response = NoResponse
    /\ sleeping = <<>>

DelayCall ==
    /\ pc = "delay"
    /\ Len(sleeping) < MaxCalls
    /\ \E r \in Jitter : sleeping' = Append(sleeping, delay(r))
    /\ UNCHANGED <<pc, err, location_ids, before, silent, loc_mapping,
                   keep_running, ats, all_timeslots, idx, notification_text,
                   rounds, fetched, results, round_results, log, response>>

NextDelay == DelayCall

SpecDelay == InitDelay /\ [][NextDelay]_vars

-----------------------------------------------------------------------------
(* Vocabulary of the properties *)

N == Len(location_ids)

Count(kind) == Cardinality({k \in 1..Len(log) : log[k].ev = kind})

\* fetches among the first k events
FetchCount(k) == Cardinality({j \in 1..k : log[j].ev = "fetch"})

FetchLog == SelectSeq(log, LAMBDA e : e.ev = "fetch")

Last(s) == s[Len(s)]

\* the while loop has been left
LoopExited ==
    \/ pc \in {"format", "send", "done"}
    \/ pc = "while" /\ ~keep_running
    \/ pc = "error" /\ err \in {"key", "delivery"}

\* a round is under way: called and not returned
InRound == rounds > Len(round_results)

FetchFailed == pc = "error" /\ err \in {"http", "parse", "before"} /\ rounds > 0

-----------------------------------------------------------------------------
(* C1: the termination condition is evaluated on returned rounds only; a   *)
(* round whose returned lists hold a timeslot is the last round of the run,*)
(* every round before it returned only empty lists, and the loop is left   *)
(* only after such a round (empty, empty-then-found: exactly two rounds).  *)
C1_StopsAtFirstFoundRound ==
    /\ \A i \in 1..Len(round_results) :
            round_results[i] => (i = Len(round_results) /\ rounds = i)
    /\ LoopExited =>
            /\ round_results # <<>>
            /\ Last(round_results)
            /\ rounds = Len(round_results)
            /\ Len(fetched) = N
    /\ pc = "round_sleep" => ~Last(round_results)

C1_Witness ==
    /\ pc = "format"
    /\ round_results = <<FALSE, TRUE>>
    /\ rounds = 2

(* C2: the PollResult handed to the formatter has exactly one entry per    *)
(* requested location id, and each entry is the filtered list of the       *)
(* latest fetch of that id in the final round.                             *)
C2_ResultOfFinalRound ==
    LoopExited =>
        /\ DictKeys(ats) = Range(location_ids)
        /\ Len(ats) = Cardinality(Range(location_ids))
        /\ DOMAIN results = DictKeys(ats)
        /\ \A i \in 1..Len(ats) : ats[i].ts = results[ats[i].id]

C2_Witness ==
    /\ pc = "format"
    /\ rounds = 2
    /\ location_ids = <<1, 1>>
    /\ ~fetched[1].found /\ fetched[2].found

(* C3: a returned round has fetched every requested location, also after a *)
(* location of the round has returned a timeslot, and the PollResult of    *)
(* the round that ends the loop holds every requested location.            *)
C3_NoEarlyExit ==
    /\ (rounds > 0 /\ ~InRound) => [i \in 1..Len(fetched) |-> fetched[i].id] = location_ids
    /\ LoopExited => DictKeys(ats) = Range(location_ids)

C3_Witness ==
    /\ pc = "format"
    /\ N = 2
    /\ fetched[1].found
    /\ fetched[2].id # fetched[1].id

(* C4: the fetches of a run are the requested list, in its order, once per *)
(* round.                                                                  *)
C4_FetchOrder ==
    /\ \A k \in 1..Len(FetchLog) : FetchLog[k].id = location_ids[((k - 1) % N) + 1]
    /\ Len(FetchLog) = N * Len(round_results)
            + (IF InRound THEN Len(fetched) + (IF FetchFailed THEN 1 ELSE 0) ELSE 0)

C4_Witness ==
    /\ LoopExited
    /\ rounds = 2
    /\ N = 2
    /\ location_ids[1] # location_ids[2]
    /\ Len(FetchLog) = 4

(* C5: one sleep follows every successful fetch; a second sleep follows    *)
(* the last fetch of a round exactly when the round returned only empty    *)
(* lists; no sleep lies between the sleep of the last fetch of the final   *)
(* round and the send; R rounds over N locations sleep R*N + (R-1) times.  *)
C5_SleepCadence ==
    /\ \A k \in 1..Len(log) : (log[k].ev = "fetch" /\ log[k].ok) =>
            IF k = Len(log)
            THEN pc = "sleep" \/ (pc = "error" /\ err = "before")
            ELSE log[k + 1].ev = "sleep"
    /\ \A k \in 1..Len(log) : log[k].ev = "sleep" =>
            /\ k > 1
            /\ \/ log[k - 1].ev = "fetch"
               \/ /\ k > 2
                  /\ log[k - 1].ev = "sleep"
                  /\ log[k - 2].ev = "fetch"
                  /\ FetchCount(k) % N = 0
                  /\ ~round_results[FetchCount(k) \div N]
    /\ \A k \in 1..Len(log) : (log[k].ev = "fetch" /\ k + 2 <= Len(log)) =>
            log[k + 2].ev =
                IF FetchCount(k) % N # 0 THEN "fetch"
                ELSE IF round_results[FetchCount(k) \div N] THEN "send"
                ELSE "sleep"
    /\ LoopExited => Count("sleep") = rounds * N + (rounds - 1)

C5_Witness ==
    /\ pc = "done"
    /\ rounds = 2
    /\ N = 2
    /\ Count("sleep") = 5

(* C6: a non-200 response of either endpoint, or a record whose            *)
(* startTimestamp cannot be parsed, ends the run at that call: the call is *)
(* the last event of the run, nothing is sent, and no step follows.        *)
C6_ErrorsAbort ==
    /\ [](\A k \in 1..Len(log) :
            (log[k].ev \in {"mapping", "fetch"} /\ ~log[k].ok) =>
                /\ k = Len(log)
                /\ pc = "error"
                /\ err \in {"http", "parse"}
                /\ Count("send") = 0)
    /\ []((pc = "error" /\ err \in {"http", "parse"}) =>
                /\ log # <<>>
                /\ Last(log).ev \in {"mapping", "fetch"}
                /\ ~Last(log).ok)
    /\ [][pc # "error"]_vars

C6_Witness ==
    /\ pc = "error"
    /\ err = "parse"
    /\ N = 2
    /\ Len(fetched) = 0
    /\ rounds = 1

(* C7, as stated: with silent set and every list empty the formatter       *)
(* returns the banner as its only block.                                   *)
C7_SilentBannerOnly ==
    (pc = "send" /\ silent /\ ~AnyNonEmptyEntry(ats)) => notification_text = <<Banner>>

(* C7, amended: with silent set and every list empty the formatter returns *)
(* no block at all, neither the banner nor a "nothing found" line.         *)
C7_SilentNoText ==
    (pc = "send" /\ silent /\ ~AnyNonEmptyEntry(ats)) => notification_text = <<>>

C7_Witness ==
    /\ pc = "send"
    /\ silent
    /\ Len(ats) = 2
    /\ ~AnyNonEmptyEntry(ats)

(* C8: with silent unset and every list empty the formatter returns two    *)
(* blocks, the banner and then the "nothing found" line.                   *)
C8_LoudTwoBlocks ==
    (pc = "send" /\ ~silent /\ ~AnyNonEmptyEntry(ats)) =>
        notification_text = <<Banner, NothingFound>>

C8_Witness ==
    /\ pc = "send"
    /\ ~silent
    /\ Len(ats) = 2
    /\ ~AnyNonEmptyEntry(ats)
    /\ Len(notification_text) = 2

(* C9: at most one send, the last event of the run, right after the sleep  *)
(* of the last fetch of a round that returned a timeslot; and a run that   *)
(* has ended after such a round has sent exactly once.                     *)
C9_NotifiedExactlyOnce ==
    /\ Count("send") <= 1
    /\ \A k \in 1..Len(log) : log[k].ev = "send" =>
            /\ k = Len(log)
            /\ k > 2
            /\ log[k - 1].ev = "sleep"
            /\ log[k - 2].ev = "fetch"
            /\ round_results # <<>>
            /\ Last(round_results)
    /\ (pc \in {"done", "error"} /\ round_results # <<>> /\ Last(round_results)) =>
            Count("send") = 1

C11_MappingOnce ==
    /\ [](/\ Count("mapping") <= 1
          /\ pc # "import_mapping" => Count("mapping") = 1
          /\ log # <<>> => log[1].ev = "mapping"
          /\ \A k \in 1..Len(log) : log[k].ev = "mapping" => k = 1
          /\ (log # <<>> /\ ~log[1].ok) =>
                /\ Count("fetch") = 0
                /\ rounds = 0
                /\ pc = "error")
    /\ [][pc # "import_mapping" => loc_mapping' = loc_mapping]_vars

C11_Witness ==
    /\ rounds = 2
    /\ pc = "done"
    /\ Count("mapping") = 1
    /\ Count("fetch") = 2 * N

(* C12: the list stored for a location holds a timeslot of the response    *)
(* exactly when there is no cutoff or the timeslot is strictly earlier     *)
(* than 00:00 of the cutoff date; midnight of the cutoff date itself is    *)
(* dropped and the last time of the day before it is kept.                 *)
C12_CutoffExclusive ==
    pc = "sleep" =>
        LET ts == all_timeslots[1].ts
            body == response.body
        IN  /\ \A i \in 1..Len(body) :
                    Datetime(body[i].day, body[i].tick) \in Range(ts)
                    <=> \/ before.kind = "none"
                        \/ body[i].day < before.day
                        \/ body[i].day = before.day /\ body[i].tick < 0
            /\ before.kind = "date" =>
                    /\ Datetime(before.day, 0) \notin Range(ts)
                    /\ Stamp(Datetime(before.day - 1, 1)) \in Range(body) =>
                            Datetime(before.day - 1, 1) \in Range(ts)
            /\ before.kind = "none" =>
                    \A i \in 1..Len(body) :
                        Datetime(body[i].day, body[i].tick) \in Range(ts)

C12_Witness ==
    /\ pc = "sleep"
    /\ before.kind = "date"
    /\ Stamp(Datetime(before.day, 0)) \in Range(response.body)
    /\ Stamp(Datetime(before.day - 1, 1)) \in Range(response.body)
    /\ all_timeslots[1].ts = <<Datetime(before.day - 1, 1)>>

(* C13: the list stored for a location is strictly ascending, so without   *)
(* repeats and with t[i] <= t[i+1]; it holds only timeslots of the         *)
(* response, and without a cutoff it holds each distinct one exactly once. *)
C13_SortedUnique ==
    pc = "sleep" =>
        LET ts == all_timeslots[1].ts
            body == response.body
            sent == {Datetime(body[i].day, body[i].tick) : i \in 1..Len(body)}
        IN  /\ \A i \in 1..(Len(ts) - 1) : Earlier(ts[i], ts[i + 1])
            /\ \A i, j \in 1..Len(ts) : ts[i] = ts[j] => i = j
            /\ Range(ts) \subseteq sent
            /\ before.kind = "none" =>
                    /\ Range(ts) = sent
                    /\ Len(ts) = Cardinality(sent)

C13_Witness ==
    /\ pc = "sleep"
    /\ before.kind = "none"
    /\ Len(response.body) = 2
    /\ \/ response.body[1] = response.body[2] /\ Len(all_timeslots[1].ts) = 1
       \/ /\ Earlier(response.body[2], response.body[1])
          /\ Len(all_timeslots[1].ts) = 2

(* C14: when some list is non-empty the text is the banner and then one    *)
(* block for each location with a non-empty list, in the order of the      *)
(* entries, none for a location with an empty list; a block is the header  *)
(* of its location and then one line for each timeslot, in list order.     *)
C14_BlockPerLocation ==
    (pc = "send" /\ AnyNonEmptyEntry(ats)) =>
        LET kept == SelectSeq(ats, LAMBDA entry : entry.ts # <<>>) IN
        /\ Len(notification_text) = 1 + Len(kept)
        /\ notification_text[1] = Banner
        /\ \A k \in 1..Len(kept) :
            LET block == notification_text[k + 1]
                entry == kept[k]
            IN  /\ Len(block) = 1 + Len(entry.ts)
                /\ block[1].kind = "header"
                /\ block[1].id = entry.id
                /\ block[1].label = loc_mapping[entry.id]
                /\ \A j \in 1..Len(entry.ts) :
                        /\ block[j + 1].kind = "slot"
                        /\ block[j + 1].day = entry.ts[j].day
                        /\ block[j + 1].tick = entry.ts[j].tick

C14_Witness ==
    /\ pc = "send"
    /\ Len(ats) = 2
    /\ ats[1].id > ats[2].id
    /\ Len(ats[1].ts) = 2
    /\ Len(ats[2].ts) = 1
    /\ Len(notification_text) = 3

(* C15: with REQUEST_DELAY = 2 every value of delay() lies between 1 and 3 *)
(* seconds, 10 and 30 tenths, both ends included and both returned for     *)
(* some draw.                                                              *)
C15_DelayRange ==
    \A i \in 1..Len(sleeping) : 10 <= sleeping[i] /\ sleeping[i] <= 30

C15_Witness ==
    /\ pc = "delay"
    /\ \E i \in 1..Len(sleeping) : sleeping[i] = 10
    /\ \E i \in 1..Len(sleeping) : sleeping[i] = 30

(* C16: the loop is left, and a notification sent, only after a round in   *)
(* which the remote sent a timeslot of a date before the cutoff date; a    *)
(* round in which it sent timeslots, all of the cutoff date or later,      *)
(* returns only empty lists, and the loop goes on to its sleep and keeps   *)
(* running.                                                                *)
C16_FilteredTermination ==
    /\ [](/\ (LoopExited \/ Count("send") > 0) =>
                \E i \in 1..Len(fetched) : fetched[i].early
          /\ (pc \in {"if_any", "round_sleep"}
                /\ \A i \in 1..Len(fetched) : ~fetched[i].early) =>
                /\ ~Last(round_results)
                /\ ~AnyNonEmptyEntry(ats)
                /\ keep_running
                /\ Count("send") = 0)
    /\ [][(pc = "if_any" /\ \A i \in 1..Len(fetched) : ~fetched[i].early) =>
                pc' = "round_sleep"]_vars
    /\ [][pc = "round_sleep" =>
                (pc' = "while" /\ keep_running') \/ pc' = "error"]_vars

C16_Witness ==
    /\ pc = "round_sleep"
    /\ before.kind = "date"
    /\ Len(fetched) = 2
    /\ \A i \in 1..Len(fetched) : fetched[i].raw /\ ~fetched[i].early

(* C17: the formatter is called, and the notifier after it, only with some *)
(* non-empty list: the text handed to the notifier is the banner and at    *)
(* least one location block, never empty and never with the "nothing       *)
(* found" line, and it is the text the other value of silent would give.   *)
C17_NeverNothingFound ==
    /\ pc = "format" => AnyNonEmptyEntry(ats)
    /\ (pc = "send" \/ Count("send") > 0) =>
            /\ Len(notification_text) >= 2
            /\ notification_text[1] = Banner
            /\ \A k \in 2..Len(notification_text) :
                    notification_text[k][1].kind = "header"
            /\ NothingFound \notin Range(notification_text)
            /\ notification_text =
                    generate_notification_texts(loc_mapping, ats, ~silent)

C17_Witness ==
    /\ pc = "done"
    /\ silent
    /\ Count("send") = 1
    /\ Len(notification_text) = 2
    /\ \E i \in 1..Len(ats) : ats[i].ts = <<>>

(* C18: when an id stands more than once in the list, a returned round has *)
(* fetched every occurrence, each followed by its sleep, and its result    *)
(* holds one entry per distinct id, with the list of the last occurrence; *)
(* the loop is left only when the last occurrence of some id found a       *)
(* timeslot, so a round whose earlier occurrence found one and whose last  *)
(* found none goes on to the sleep of the loop.                            *)
C18_LastOccurrenceWins ==
    (rounds > 0 /\ ~InRound) =>
        LET IsLast(j) == \A k \in (j + 1)..N : location_ids[k] # location_ids[j] IN
        /\ Len(fetched) = N
        /\ \A j \in 1..N : fetched[j].id = location_ids[j]
        /\ Count("fetch") = rounds * N
        /\ Count("sleep") >= rounds * N
        /\ Len(ats) = Cardinality(Range(location_ids))
        /\ \A i, j \in 1..Len(ats) : ats[i].id = ats[j].id => i = j
        /\ \A i \in 1..Len(ats) : \E j \in 1..N :
                /\ IsLast(j)
                /\ ats[i].id = location_ids[j]
                /\ ats[i].ts = results[location_ids[j]]
                /\ ats[i].ts # <<>> <=> fetched[j].found
        /\ LoopExited => \E j \in 1..N : IsLast(j) /\ fetched[j].found
        /\ (pc \in {"if_any", "round_sleep"}
                /\ \A j \in 1..N : IsLast(j) => ~fetched[j].found) =>
                /\ ~Last(round_results)
                /\ keep_running
        /\ pc = "round_sleep" => \A j \in 1..N : IsLast(j) => ~fetched[j].found

C18_Witness ==
    /\ pc = "round_sleep"
    /\ location_ids = <<1, 1>>
    /\ fetched[1].found
    /\ ~fetched[2].found
    /\ Len(ats) = 1
    /\ ats[1].ts = <<>>

\* some location of the result has a timeslot and no label
Unlabelled ==
    \E i \in 1..Len(ats) : ats[i].ts # <<>> /\ ats[i].id \notin DOMAIN loc_mapping

(* C19: the formatter fails on a missing label exactly when a location     *)
(* with a non-empty list has no entry in the mapping: the run then ends    *)
(* with nothing sent; a location without an entry whose list is empty      *)
(* fails nothing, in the rounds or in the formatter.                       *)
C19_LabelLookupOnlyWhenFound ==
    /\ []((pc = "error" /\ err = "key") =>
            /\ Unlabelled
            /\ Count("send") = 0
            /\ notification_text = <<>>)
    /\ []((pc \in {"send", "done"} \/ Count("send") > 0) => ~Unlabelled)
    /\ [][(pc = "format" /\ Unlabelled) => (pc' = "error" /\ err' = "key")]_vars
    /\ [][(pc = "format" /\ ~Unlabelled) => pc' = "send"]_vars

C19_Witness ==
    /\ pc = "error"
    /\ err = "key"
    /\ Len(ats) = 2
    /\ ats[1].ts = <<>>
    /\ ats[1].id \notin DOMAIN loc_mapping
    /\ ats[2].ts # <<>>
    /\ ats[2].id \notin DOMAIN loc_mapping
    /\ rounds = 2

(* C20: the cutoff string is parsed only at a fetched timeslot: an error   *)
(* of the cutoff arises at a fetch the remote answered with a timeslot,    *)
(* never before the first fetch; with an invalid cutoff every fetch that   *)
(* went through had no timeslot, the rounds go on as long as that is so,   *)
(* the loop is never left and nothing is ever sent.                        *)
C20_CutoffParsedLazily ==
    /\ (pc = "error" /\ err = "before") =>
            /\ before.kind = "bad"
            /\ rounds >= 1
            /\ Last(log).ev = "fetch"
            /\ Last(log).ok
    /\ before.kind = "bad" =>
            /\ \A i \in 1..Len(fetched) : ~fetched[i].raw /\ ~fetched[i].found
            /\ \A i \in 1..Len(round_results) : ~round_results[i]
            /\ ~LoopExited
            /\ Count("send") = 0
            /\ notification_text = <<>>
            /\ pc = "error" => err \in {"http", "parse", "before", "sleep"}
            /\ pc \in {"if_any", "round_sleep"} => keep_running

C20_Witness ==
    /\ pc = "error"
    /\ err = "before"
    /\ rounds = 2
    /\ Count("fetch") = N + 1
    /\ Count("send") = 0

====
